---- MODULE Spec2Model ----
(***************************************************************************)
(* Model of the document-editing engine.                                   *)
(*                                                                         *)
(* XML side (specification Spec): the XmlEditor (element tree, identifier  *)
(* index, undo/redo stacks) and the five structural commands InsertBefore, *)
(* AppendChild, EditId, EditText and Delete, with their Execute and Undo   *)
(* methods.  A document is built by NewXmlEditor from a file content (an    *)
(* optional log-marker line and the XML text); ToXML and parseXMLContent   *)
(* are modelled on the tokens of the XML text.                             *)
(*                                                                         *)
(* Text side (specification SpecText): the line buffer and the commands    *)
(* Append, Insert, Delete and Replace, with their Execute and Undo         *)
(* methods, driven one command object at a time; specification SpecSeq     *)
(* runs sequences of them: executed, undone last-first, executed again.    *)
(*                                                                         *)
(* Statistics (specification SpecStats): the per-file timers that Update   *)
(* keeps from the workspace events, the warning channel and the mutex.     *)
(*                                                                         *)
(* Strings are sequences of one-character strings, so that escapeXML is    *)
(* computed character by character.  Elements live in a heap (a sequence   *)
(* of element records); a pointer is an index into the heap, 0 is nil.     *)
(***************************************************************************)
EXTENDS Integers, Sequences, FiniteSets, TLC

VARIABLES heap, root, idMap, undoStack, redoStack, isModified, last, calls,
          lines, tcmd, content, logEnabled, seq,
          timers, warnCh, mu, closedDelivered, event

vars == <<heap, root, idMap, undoStack, redoStack, isModified, last, calls,
          lines, tcmd, content, logEnabled, seq,
          timers, warnCh, mu, closedDelivered, event>>

(* ---------------------------- bounds ----------------------------------- *)

\* Largest number of commands on the undo and redo stacks together.
MaxStack == 2

\* Largest number of calls made on one editor.
MaxCalls == 3

(* ---------------------------- strings ---------------------------------- *)

EmptyStr == <<>>
RootStr == <<"r", "o", "o", "t">>

\* Identifiers, tags and texts the callers pass to the entry points.
Ids == {EmptyStr, <<"&">>, RootStr}
Tags == {<<"b">>}
Texts == {EmptyStr, <<"t">>}
NewTexts == {<<"t">>}

escapeChar(ch) ==
    CASE ch = "&" -> <<"&", "a", "m", "p", ";">>
      [] ch = "<" -> <<"&", "l", "t", ";">>
      [] ch = ">" -> <<"&", "g", "t", ";">>
      [] ch = "\"" -> <<"&", "q", "u", "o", "t", ";">>
      [] ch = "'" -> <<"&", "a", "p", "o", "s", ";">>
      [] OTHER -> <<ch>>

RECURSIVE escapeXML(_)
escapeXML(s) ==
    IF s = <<>> THEN <<>> ELSE escapeChar(Head(s)) \o escapeXML(Tail(s))

(* ---------------------------- maps ------------------------------------- *)

EmptyMap == [k \in {} |-> 0]

MapPut(m, k, v) == [x \in (DOMAIN m) \cup {k} |-> IF x = k THEN v ELSE m[x]]

MapDelete(m, k) == [x \in (DOMAIN m) \ {k} |-> m[x]]

(* ---------------------------- elements --------------------------------- *)

NoAttrs == [k \in {} |-> EmptyStr]

XMLElement(tag, id, attrs, text, parent, children) ==
    [tag |-> tag, id |-> id, attrs |-> attrs, text |-> text,
     parent |-> parent, children |-> children]

\* Go's s[:i] ++ s[i+1:] and s[:i] ++ [e] ++ s[i:], i counted from 0.
RemoveAt(s, i) == SubSeq(s, 1, i) \o SubSeq(s, i + 2, Len(s))

InsertAt(s, i, e) == SubSeq(s, 1, i) \o <<e>> \o SubSeq(s, i + 1, Len(s))

\* The loop "for i, child := range kids { if child.id == id ... break }":
\* the 0-based index of the first child carrying id, -1 if there is none.
IndexOfId(h, kids, id) ==
    LET hits == {i \in 1..Len(kids) : h[kids[i]].id = id}
    IN IF hits = {} THEN -1 ELSE (CHOOSE i \in hits : \A j \in hits : i <= j) - 1

\* The same loop comparing pointers instead of identifiers.
IndexOfElem(kids, e) ==
    LET hits == {i \in 1..Len(kids) : kids[i] = e}
    IN IF hits = {} THEN -1 ELSE (CHOOSE i \in hits : \A j \in hits : i <= j) - 1

\* Pre-order list of the elements of the subtree below (and with) e.
RECURSIVE Subtree(_, _)
RECURSIVE SubtreeOfAll(_, _)
Subtree(h, e) == <<e>> \o SubtreeOfAll(h, h[e].children)
SubtreeOfAll(h, kids) ==
    IF kids = <<>> THEN <<>>
    ELSE Subtree(h, Head(kids)) \o SubtreeOfAll(h, Tail(kids))

\* findNodeById: first element in pre-order whose id is targetId, 0 if none.
findNodeById(h, node, targetId) ==
    IF node = 0 THEN 0
    ELSE LET order == Subtree(h, node)
             hits == {i \in 1..Len(order) : h[order[i]].id = targetId}
         IN IF hits = {} THEN 0
            ELSE order[CHOOSE i \in hits : \A j \in hits : i <= j]

\* buildIdMap: every element with a non-empty id, later ones overwriting.
RECURSIVE PutAll(_, _, _)
PutAll(h, m, order) ==
    IF order = <<>> THEN m
    ELSE PutAll(h,
                IF h[Head(order)].id # EmptyStr
                THEN MapPut(m, h[Head(order)].id, Head(order)) ELSE m,
                Tail(order))

buildIdMap(h, r) == IF r = 0 THEN EmptyMap ELSE PutAll(h, EmptyMap, Subtree(h, r))

(* ---------------------------- serialization ---------------------------- *)

\* strings.TrimSpace: s without its leading and trailing white space.
IsSpace(ch) == ch \in {" ", "\n", "\t", "\r"}

RECURSIVE TrimLeft(_)
TrimLeft(s) ==
    IF s = <<>> THEN <<>>
    ELSE IF IsSpace(Head(s)) THEN TrimLeft(Tail(s)) ELSE s

RECURSIVE TrimRight(_)
TrimRight(s) ==
    IF s = <<>> THEN <<>>
    ELSE IF IsSpace(s[Len(s)]) THEN TrimRight(SubSeq(s, 1, Len(s) - 1)) ELSE s

TrimSpace(s) == TrimRight(TrimLeft(s))

\* strings.Repeat("    ", indent)
RECURSIVE Indent(_)
Indent(indent) ==
    IF indent = 0 THEN <<>> ELSE <<" ", " ", " ", " ">> \o Indent(indent - 1)

\* What the decoder makes of an escaped attribute value or character data:
\* each of the five entity references becomes its character again.
RECURSIVE unescapeXML(_)
unescapeXML(s) ==
    LET starts(p) == Len(s) >= Len(p) /\ SubSeq(s, 1, Len(p)) = p
        after(p) == SubSeq(s, Len(p) + 1, Len(s))
    IN IF s = <<>> THEN <<>>
       ELSE IF starts(escapeChar("&")) THEN <<"&">> \o unescapeXML(after(escapeChar("&")))
       ELSE IF starts(escapeChar("<")) THEN <<"<">> \o unescapeXML(after(escapeChar("<")))
       ELSE IF starts(escapeChar(">")) THEN <<">">> \o unescapeXML(after(escapeChar(">")))
       ELSE IF starts(escapeChar("\"")) THEN <<"\"">> \o unescapeXML(after(escapeChar("\"")))
       ELSE IF starts(escapeChar("'")) THEN <<"'">> \o unescapeXML(after(escapeChar("'")))
       ELSE <<Head(s)>> \o unescapeXML(Tail(s))

\* The text ToXML writes, as the tokens the decoder reads from it: the
\* written attribute values and character data are kept character by
\* character, the tag syntax is kept as the token's type.
ProcInst == [type |-> "ProcInst"]
StartElement(name, attrs) == [type |-> "StartElement", name |-> name, attrs |-> attrs]
CharData(data) == [type |-> "CharData", data |-> data]
EndElement(name) == [type |-> "EndElement", name |-> name]

RECURSIVE serializeNode(_, _, _)
RECURSIVE serializeAll(_, _, _)
serializeNode(h, elem, indent) ==
    LET e == h[elem]
        start == StartElement(e.tag, [k \in DOMAIN e.attrs |-> escapeXML(e.attrs[k])])
    IN IF e.text = EmptyStr /\ Len(e.children) = 0
       THEN <<CharData(Indent(indent)), start, EndElement(e.tag), CharData(<<"\n">>)>>
       ELSE <<CharData(Indent(indent)), start>>
                \o (IF e.text # EmptyStr
                    THEN <<CharData(<<"\n">> \o Indent(indent + 1)
                                        \o escapeXML(e.text) \o <<"\n">>)>>
                    ELSE <<CharData(<<"\n">>)>>)
                \o serializeAll(h, e.children, indent + 1)
                \o <<CharData(Indent(indent)), EndElement(e.tag), CharData(<<"\n">>)>>
serializeAll(h, kids, indent) ==
    IF kids = <<>> THEN <<>>
    ELSE serializeNode(h, Head(kids), indent) \o serializeAll(h, Tail(kids), indent)

ToXML(ed) == <<ProcInst, CharData(<<"\n">>)>> \o serializeNode(ed.heap, root, 0)

\* One turn of the token loop of parseXMLContent; st holds the elements
\* made so far, the root and currentParent.
parseToken(st, t) ==
    CASE t.type = "StartElement" ->
             LET attrs == [k \in DOMAIN t.attrs |-> unescapeXML(t.attrs[k])]
                 id == IF "id" \in DOMAIN attrs THEN attrs["id"] ELSE EmptyStr
                 elem == Len(st.heap) + 1
                 h1 == Append(st.heap,
                              XMLElement(t.name, id, attrs, EmptyStr,
                                         st.currentParent, <<>>))
             IN IF st.currentParent = 0
                THEN [heap |-> h1, root |-> elem, currentParent |-> elem]
                ELSE [heap |-> [h1 EXCEPT ![st.currentParent].children =
                                    Append(@, elem)],
                      root |-> st.root, currentParent |-> elem]
      [] t.type = "CharData" ->
             LET text == TrimSpace(unescapeXML(t.data))
             IN IF text # EmptyStr /\ st.currentParent # 0
                THEN [st EXCEPT !.heap[st.currentParent].text = text]
                ELSE st
      [] t.type = "EndElement" ->
             IF st.currentParent # 0
             THEN [st EXCEPT !.currentParent = st.heap[st.currentParent].parent]
             ELSE st
      [] OTHER -> st

RECURSIVE parseTokens(_, _)
parseTokens(st, tokens) ==
    IF tokens = <<>> THEN st
    ELSE parseTokens(parseToken(st, Head(tokens)), Tail(tokens))

\* parseXMLContent: the tree the token loop builds (root 0: no root element).
parseXMLContent(tokens) ==
    parseTokens([heap |-> <<>>, root |-> 0, currentParent |-> 0], tokens)

\* An element with everything below it, as a value: tag, identifier,
\* attributes, text and the children in their order.
RECURSIVE TreeValue(_, _)
RECURSIVE TreeValues(_, _)
TreeValue(h, e) ==
    [tag |-> h[e].tag, id |-> h[e].id, attrs |-> h[e].attrs, text |-> h[e].text,
     children |-> TreeValues(h, h[e].children)]
TreeValues(h, kids) ==
    IF kids = <<>> THEN <<>>
    ELSE <<TreeValue(h, Head(kids))>> \o TreeValues(h, Tail(kids))

(* ---------------------------- construction ----------------------------- *)

\* parseXMLContent applied to
\*   <root id="root"><a id="&amp;"><n><c id="c"/></n></a><s/></root>
\* elements are allocated in document order.
SampleHeap ==
    << XMLElement(RootStr, RootStr, [k \in {"id"} |-> RootStr], EmptyStr, 0, <<2, 5>>),
       XMLElement(<<"a">>, <<"&">>, [k \in {"id"} |-> <<"&">>], EmptyStr, 1, <<3>>),
       XMLElement(<<"n">>, EmptyStr, NoAttrs, EmptyStr, 2, <<4>>),
       XMLElement(<<"c">>, <<"c">>, [k \in {"id"} |-> <<"c">>], EmptyStr, 3, <<>>),
       XMLElement(<<"s">>, EmptyStr, NoAttrs, EmptyStr, 1, <<>>) >>

\* NewXmlEditor with empty content: the default root, index left empty.
EmptyDocHeap ==
    << XMLElement(RootStr, RootStr, [k \in {"id"} |-> RootStr], EmptyStr, 0, <<>>) >>

\* The first-line token that switches logging on for a document.
LogMarker == <<"#", " ", "l", "o", "g">>

\* strings.Contains.
Contains(s, substr) ==
    \E i \in 1..(Len(s) + 1) :
        /\ i + Len(substr) - 1 <= Len(s)
        /\ SubSeq(s, i, i + Len(substr) - 1) = substr

\* A file's content: the lines in front of the XML text, and the XML text as
\* the tokens the decoder reads from it (no tokens: no XML text).
Content(head, xml) == [head |-> head, xml |-> xml]

\* The XML text of the sample document, as ToXML lays it out.
SampleXml == <<ProcInst, CharData(<<"\n">>)>> \o serializeNode(SampleHeap, 1, 0)

\* The contents a document is built from: nothing, the sample document, and
\* each of them behind a marker line (bare, and with blanks around it).
Contents ==
    { Content(<<>>, <<>>), Content(<<>>, SampleXml),
      Content(<<LogMarker>>, <<>>), Content(<<LogMarker>>, SampleXml),
      Content(<<<<" ">> \o LogMarker \o <<" ">>>>, SampleXml) }

\* lines[0] of strings.Split(content, "\n"): the first line in front of the
\* XML text, else the first line of the XML text (the declaration), else "".
FirstLine(c) ==
    IF c.head # <<>> THEN c.head[1]
    ELSE IF c.xml # <<>> THEN <<"<", "?", "x", "m", "l", "?", ">">>
    ELSE EmptyStr

\* The root the constructor makes when the content does not parse; its tag
\* (the words "parse failed" between angle brackets) is written in ASCII.
ParseFailedHeap ==
    << XMLElement(<<"<parse-failed>">>, <<"n", "o", "-", "i", "d">>, NoAttrs, EmptyStr, 0, <<>>) >>

\* NewXmlEditor: the marker is looked for in the first line and that line
\* is dropped from what is parsed; the logEnabled field keeps the value of
\* the struct literal.
NewXmlEditor(c) ==
    LET firstLine == TrimSpace(FirstLine(c))
        marked == Contains(firstLine, LogMarker)
        rest == IF marked /\ c.head # <<>> THEN Content(Tail(c.head), c.xml) ELSE c
        empty == rest.head = <<>> /\ rest.xml = <<>>
        p == parseXMLContent(rest.xml)
    IN /\ content = c
       /\ logEnabled = FALSE
       /\ heap = IF empty THEN EmptyDocHeap
                 ELSE IF p.root = 0 THEN ParseFailedHeap
                 ELSE p.heap
       /\ root = 1
       /\ idMap = IF empty \/ p.root = 0 THEN EmptyMap
                  ELSE buildIdMap(p.heap, p.root)
       /\ undoStack = <<>>
       /\ redoStack = <<>>
       /\ isModified = FALSE

IsLogEnabled == logEnabled

\* GetContent: the text of ToXML, behind a marker line when logging is on.
GetContent(ed) == Content(IF logEnabled THEN <<LogMarker>> ELSE <<>>, ToXML(ed))

\* The StartTime of a timer that was never started: before every timestamp.
ZeroTime == 0

FileTimer(StartTime, TotalTime, IsActive, IsClosed) ==
    [StartTime |-> StartTime, TotalTime |-> TotalTime, IsActive |-> IsActive,
     IsClosed |-> IsClosed]

\* No event has been delivered.
NoEvent == [Type |-> "none", FilePath |-> "", closedBefore |-> FALSE]

\* NewStatistics: no timers, an empty warning channel, the mutex free and
\* no Update waiting to send.
NewStatistics ==
    /\ timers = [f \in {} |-> FileTimer(ZeroTime, 0, FALSE, FALSE)]
    /\ warnCh = 0
    /\ mu = "unlocked"
    /\ closedDelivered = {}
    /\ event = NoEvent

\* No sequence of text commands is run.
NoSequence ==
    [phase |-> "none", done |-> <<>>, undone |-> <<>>, initial |-> <<>>,
     first |-> <<>>]

\* No text command has been built.
NoTextCommand == [kind |-> "none", executed |-> FALSE]

\* A document is built from a content without marker line: nothing, or the
\* sample document.
Init ==
    /\ \E c \in {d \in Contents : d.head = <<>>} : NewXmlEditor(c)
    /\ last = [op |-> "New", kind |-> "none", out |-> "ok"]
    /\ calls = 0
    /\ lines = <<>>
    /\ tcmd = NoTextCommand
    /\ seq = NoSequence
    /\ NewStatistics

\* A document is built from any of the contents.
InitContents ==
    /\ \E c \in Contents : NewXmlEditor(c)
    /\ last = [op |-> "New", kind |-> "none", out |-> "ok"]
    /\ calls = 0
    /\ lines = <<>>
    /\ tcmd = NoTextCommand
    /\ seq = NoSequence
    /\ NewStatistics

(* ---------------------------- commands --------------------------------- *)

\* One record shape for the five command structs; a field a command type
\* does not have keeps its zero value.
NewCommand(kind) ==
    [kind |-> kind, tag |-> EmptyStr, newId |-> EmptyStr, targetId |-> EmptyStr,
     parentId |-> EmptyStr, oldId |-> EmptyStr, elementId |-> EmptyStr,
     text |-> EmptyStr, insertedElem |-> 0, prevId |-> EmptyStr,
     prevText |-> EmptyStr, deletedElem |-> 0, parentElem |-> 0, index |-> 0,
     deletedIdMap |-> EmptyMap, deletedIdMapNil |-> TRUE, success |-> FALSE]

NewInsertBeforeCommand(tag, newId, targetId, text) ==
    [NewCommand("InsertBefore") EXCEPT !.tag = tag, !.newId = newId,
                                       !.targetId = targetId, !.text = text]

NewAppendChildCommand(tag, newId, parentId, text) ==
    [NewCommand("AppendChild") EXCEPT !.tag = tag, !.newId = newId,
                                      !.parentId = parentId, !.text = text]

NewEditIdCommand(oldId, newId) ==
    [NewCommand("EditId") EXCEPT !.oldId = oldId, !.newId = newId]

NewEditTextCommand(elementId, text) ==
    [NewCommand("EditText") EXCEPT !.elementId = elementId, !.text = text]

NewXmlDeleteCommand(elementId) ==
    [NewCommand("Delete") EXCEPT !.elementId = elementId]

\* Result of Execute or Undo: the editor fields, the command afterwards and
\* the branch taken ("ok", or the kind of the message printed on return).
Result(h, m, mod, c, out) ==
    [heap |-> h, idMap |-> m, isModified |-> mod, c |-> c, out |-> out]

Unchanged(w, c, out) == Result(w.heap, w.idMap, w.isModified, c, out)

InsertBeforeExecute(w, c) ==
    IF c.newId \in DOMAIN w.idMap THEN Unchanged(w, c, "DuplicateIdentifier")
    ELSE IF c.targetId \notin DOMAIN w.idMap THEN Unchanged(w, c, "NotFound")
    ELSE LET targetElem == w.idMap[c.targetId]
             parent == w.heap[targetElem].parent
         IN IF parent = 0 THEN Unchanged(w, c, "IllegalRootOperation")
            ELSE LET index == IndexOfId(w.heap, w.heap[parent].children, c.targetId)
                 IN IF index = -1 THEN Unchanged(w, c, "NotFound")
                    ELSE LET newElem == Len(w.heap) + 1
                             elem == XMLElement(c.tag, c.newId,
                                                [k \in {"id"} |-> escapeXML(c.newId)],
                                                c.text, parent, <<>>)
                             h1 == [w.heap EXCEPT ![parent].children =
                                        InsertAt(@, index, newElem)]
                         IN Result(Append(h1, elem),
                                   MapPut(w.idMap, c.newId, newElem), TRUE,
                                   [c EXCEPT !.insertedElem = newElem, !.success = TRUE],
                                   "ok")

\* Undo of InsertBefore and of AppendChild (the two bodies are the same).
InsertedUndo(w, c) ==
    IF ~c.success \/ c.insertedElem = 0 THEN Unchanged(w, c, "noop")
    ELSE LET parent == w.heap[c.insertedElem].parent
         IN IF parent = 0 THEN Unchanged(w, c, "noop")
            ELSE LET index == IndexOfId(w.heap, w.heap[parent].children, c.newId)
                     h1 == IF index # -1
                           THEN [w.heap EXCEPT ![parent].children = RemoveAt(@, index)]
                           ELSE w.heap
                 IN Result(h1, MapDelete(w.idMap, c.newId), TRUE,
                           [c EXCEPT !.success = FALSE], "ok")

InsertBeforeUndo(w, c) == InsertedUndo(w, c)

AppendChildExecute(w, c) ==
    LET inMap == c.parentId \in DOMAIN w.idMap
        parentNode == findNodeById(w.heap, root, c.parentId)
        parentElem == IF inMap THEN w.idMap[c.parentId] ELSE parentNode
    IN IF ~inMap /\ parentNode = 0
       THEN Unchanged(w, [c EXCEPT !.success = FALSE], "NotFound")
       ELSE IF c.newId \in DOMAIN w.idMap THEN Unchanged(w, c, "DuplicateIdentifier")
       ELSE LET newElem == Len(w.heap) + 1
                elem == XMLElement(c.tag, c.newId, [k \in {"id"} |-> c.newId],
                                   c.text, parentElem, <<>>)
                h1 == [w.heap EXCEPT ![parentElem].children = Append(@, newElem)]
            IN Result(Append(h1, elem), MapPut(w.idMap, c.newId, newElem), TRUE,
                      [c EXCEPT !.insertedElem = newElem, !.success = TRUE], "ok")

AppendChildUndo(w, c) == InsertedUndo(w, c)

\* EditIdExecute without the check that refuses the root.
EditIdExecute_NoRootCheck(w, c) ==
    IF c.oldId \notin DOMAIN w.idMap THEN Unchanged(w, c, "NotFound")
    ELSE LET elem == w.idMap[c.oldId]
         IN IF c.newId \in DOMAIN w.idMap
            THEN Unchanged(w, c, "DuplicateIdentifier")
            ELSE Result([w.heap EXCEPT ![elem].id = c.newId],
                        MapPut(MapDelete(w.idMap, c.oldId), c.newId, elem), TRUE,
                        [c EXCEPT !.prevId = w.heap[elem].id, !.success = TRUE],
                        "ok")

EditIdExecute(w, c) ==
    IF c.oldId \notin DOMAIN w.idMap THEN Unchanged(w, c, "NotFound")
    ELSE LET elem == w.idMap[c.oldId]
         IN IF elem = root
            THEN Unchanged(w, [c EXCEPT !.success = FALSE], "IllegalRootOperation")
            ELSE IF c.newId \in DOMAIN w.idMap
            THEN Unchanged(w, c, "DuplicateIdentifier")
            ELSE Result([w.heap EXCEPT ![elem].id = c.newId],
                        MapPut(MapDelete(w.idMap, c.oldId), c.newId, elem), TRUE,
                        [c EXCEPT !.prevId = w.heap[elem].id, !.success = TRUE],
                        "ok")

EditIdUndo(w, c) ==
    IF ~c.success \/ c.prevId = EmptyStr THEN Unchanged(w, c, "noop")
    ELSE IF c.newId \notin DOMAIN w.idMap THEN Unchanged(w, c, "noop")
    ELSE LET elem == w.idMap[c.newId]
         IN Result([w.heap EXCEPT ![elem].id = c.prevId],
                   MapPut(MapDelete(w.idMap, c.newId), c.prevId, elem), TRUE,
                   [c EXCEPT !.success = FALSE], "ok")

EditTextExecute(w, c) ==
    IF c.elementId \notin DOMAIN w.idMap THEN Unchanged(w, c, "NotFound")
    ELSE LET elem == w.idMap[c.elementId]
         IN Result([w.heap EXCEPT ![elem].text = c.text], w.idMap, TRUE,
                   [c EXCEPT !.prevText = w.heap[elem].text, !.success = TRUE],
                   "ok")

EditTextUndo(w, c) ==
    IF ~c.success \/ c.prevText = EmptyStr THEN Unchanged(w, c, "noop")
    ELSE IF c.elementId \notin DOMAIN w.idMap THEN Unchanged(w, c, "noop")
    ELSE LET elem == w.idMap[c.elementId]
         IN Result([w.heap EXCEPT ![elem].text = c.prevText], w.idMap, TRUE,
                   [c EXCEPT !.success = FALSE], "ok")

\* recursiveSaveNodes: stops at an element without id, children included.
RECURSIVE recursiveSaveNodes(_, _, _)
RECURSIVE SaveNodesOfAll(_, _, _)
recursiveSaveNodes(h, m, elem) ==
    IF elem = 0 \/ h[elem].id = EmptyStr THEN m
    ELSE SaveNodesOfAll(h, MapPut(m, h[elem].id, elem), h[elem].children)
SaveNodesOfAll(h, m, kids) ==
    IF kids = <<>> THEN m
    ELSE SaveNodesOfAll(h, recursiveSaveNodes(h, m, Head(kids)), Tail(kids))

\* recursiveDeleteIdMap: children first, then the element's own key.
RECURSIVE recursiveDeleteIdMap(_, _, _)
RECURSIVE DeleteIdMapOfAll(_, _, _)
recursiveDeleteIdMap(h, m, elem) ==
    IF elem = 0 \/ h[elem].id = EmptyStr THEN m
    ELSE MapDelete(DeleteIdMapOfAll(h, m, h[elem].children), h[elem].id)
DeleteIdMapOfAll(h, m, kids) ==
    IF kids = <<>> THEN m
    ELSE DeleteIdMapOfAll(h, recursiveDeleteIdMap(h, m, Head(kids)), Tail(kids))

XmlDeleteExecute(w, c) ==
    IF c.elementId \notin DOMAIN w.idMap THEN Unchanged(w, c, "NotFound")
    ELSE LET elem == w.idMap[c.elementId]
         IN IF elem = root THEN Unchanged(w, c, "IllegalRootOperation")
            ELSE LET saved == recursiveSaveNodes(w.heap, EmptyMap, elem)
                     parentElem == w.heap[elem].parent
                     index == IndexOfElem(w.heap[parentElem].children, elem)
                     c1 == [c EXCEPT !.deletedIdMap = saved,
                                     !.deletedIdMapNil = FALSE,
                                     !.deletedElem = elem,
                                     !.parentElem = parentElem,
                                     !.index = index]
                 IN IF index = -1
                    THEN Unchanged(w, [c1 EXCEPT !.success = FALSE], "NotFound")
                    ELSE Result([w.heap EXCEPT ![parentElem].children =
                                     RemoveAt(@, index)],
                                recursiveDeleteIdMap(w.heap, w.idMap, elem), TRUE,
                                [c1 EXCEPT !.success = TRUE], "ok")

\* The loop "for id, elem := range deletedIdMap { idMap[id] = elem }".
MapPutAll(m, from) ==
    [x \in (DOMAIN m) \cup (DOMAIN from) |->
        IF x \in DOMAIN from THEN from[x] ELSE m[x]]

\* XmlDeleteUndo putting the element back as the parent's last child.
XmlDeleteUndo_AtEnd(w, c) ==
    IF \/ ~c.success
       \/ c.deletedElem = 0
       \/ c.parentElem = 0
       \/ c.index = -1
       \/ c.deletedIdMapNil
    THEN Unchanged(w, c, "noop")
    ELSE Result([w.heap EXCEPT ![c.parentElem].children = Append(@, c.deletedElem)],
                MapPutAll(w.idMap, c.deletedIdMap), TRUE,
                [c EXCEPT !.success = FALSE], "ok")

XmlDeleteUndo(w, c) ==
    IF \/ ~c.success
       \/ c.deletedElem = 0
       \/ c.parentElem = 0
       \/ c.index = -1
       \/ c.deletedIdMapNil
    THEN Unchanged(w, c, "noop")
    ELSE Result([w.heap EXCEPT ![c.parentElem].children =
                     InsertAt(@, c.index, c.deletedElem)],
                MapPutAll(w.idMap, c.deletedIdMap), TRUE,
                [c EXCEPT !.success = FALSE], "ok")

\* Dispatch of the Command interface on the command's dynamic type.
Execute(w, c) ==
    CASE c.kind = "InsertBefore" -> InsertBeforeExecute(w, c)
      [] c.kind = "AppendChild" -> AppendChildExecute(w, c)
      [] c.kind = "EditId" -> EditIdExecute(w, c)
      [] c.kind = "EditText" -> EditTextExecute(w, c)
      [] c.kind = "Delete" -> XmlDeleteExecute(w, c)

CommandUndo(w, c) ==
    CASE c.kind = "InsertBefore" -> InsertBeforeUndo(w, c)
      [] c.kind = "AppendChild" -> AppendChildUndo(w, c)
      [] c.kind = "EditId" -> EditIdUndo(w, c)
      [] c.kind = "EditText" -> EditTextUndo(w, c)
      [] c.kind = "Delete" -> XmlDeleteUndo(w, c)

IsExecuted(c) == c.success

(* ---------------------------- editor ----------------------------------- *)

\* The XmlEditor fields the commands and the stacks work on.
Editor(h, m, us, rs, mod) ==
    [heap |-> h, idMap |-> m, undoStack |-> us, redoStack |-> rs,
     isModified |-> mod]

Ed == Editor(heap, idMap, undoStack, redoStack, isModified)

\* A call's effect: the editor afterwards, the command as the call left it
\* and the branch taken.
Outcome(h, m, us, rs, mod, c, out) ==
    [ed |-> Editor(h, m, us, rs, mod), cmd |-> c, out |-> out]

\* ExecuteCommand that keeps the redo stack.
ExecuteCommand_KeepsRedo(ed, command) ==
    LET r == Execute(ed, command)
    IN Outcome(r.heap, r.idMap, Append(ed.undoStack, r.c), ed.redoStack, TRUE,
               r.c, r.out)

\* XmlEditor.ExecuteCommand, the body of the five entry points.
ExecuteCommand(ed, command) ==
    LET r == Execute(ed, command)
    IN Outcome(r.heap, r.idMap, Append(ed.undoStack, r.c), <<>>, TRUE, r.c, r.out)

\* The five entry points of XmlEditor: each builds its command, hands it to
\* ExecuteCommand and ends with "return nil"; err is the value returned.
XmlEntryPoint(ed, command) ==
    LET o == ExecuteCommand(ed, command)
    IN [ed |-> o.ed, cmd |-> o.cmd, out |-> o.out, err |-> "nil"]

\* XmlEditorUndo that leaves the command on the undo stack.
XmlEditorUndo_KeepsTop(ed) ==
    IF Len(ed.undoStack) = 0
    THEN Outcome(ed.heap, ed.idMap, ed.undoStack, ed.redoStack, ed.isModified,
                 NewCommand("none"), "empty")
    ELSE LET cmd == ed.undoStack[Len(ed.undoStack)]
             r == CommandUndo(ed, cmd)
         IN Outcome(r.heap, r.idMap, ed.undoStack,
                    Append(ed.redoStack, r.c), r.isModified, r.c, r.out)

XmlEditorUndo(ed) ==
    IF Len(ed.undoStack) = 0
    THEN Outcome(ed.heap, ed.idMap, ed.undoStack, ed.redoStack, ed.isModified,
                 NewCommand("none"), "empty")
    ELSE LET cmd == ed.undoStack[Len(ed.undoStack)]
             r == CommandUndo(ed, cmd)
         IN Outcome(r.heap, r.idMap,
                    SubSeq(ed.undoStack, 1, Len(ed.undoStack) - 1),
                    Append(ed.redoStack, r.c), r.isModified, r.c, r.out)

XmlEditorRedo(ed) ==
    IF Len(ed.redoStack) = 0
    THEN Outcome(ed.heap, ed.idMap, ed.undoStack, ed.redoStack, ed.isModified,
                 NewCommand("none"), "empty")
    ELSE LET cmd == ed.redoStack[Len(ed.redoStack)]
             r == Execute(ed, cmd)
         IN Outcome(r.heap, r.idMap, Append(ed.undoStack, r.c),
                    SubSeq(ed.redoStack, 1, Len(ed.redoStack) - 1),
                    r.isModified, r.c, r.out)

\* The commands the callers can construct from the input sets.
InsertBeforeCommands ==
    {NewInsertBeforeCommand(tag, newId, targetId, text) :
        tag \in Tags, newId \in Ids, targetId \in Ids, text \in NewTexts}

AppendChildCommands ==
    {NewAppendChildCommand(tag, newId, parentId, text) :
        tag \in Tags, newId \in Ids, parentId \in Ids, text \in NewTexts}

EditIdCommands == {NewEditIdCommand(oldId, newId) : oldId \in Ids, newId \in Ids}

EditTextCommands ==
    {NewEditTextCommand(elementId, text) : elementId \in Ids, text \in Texts}

XmlDeleteCommands == {NewXmlDeleteCommand(elementId) : elementId \in Ids}

Commands ==
    InsertBeforeCommands \cup AppendChildCommands \cup EditIdCommands
        \cup EditTextCommands \cup XmlDeleteCommands

\* The step of the model that makes a call: the editor becomes the call's
\* outcome and last remembers which call it was.
Step(op, o) ==
    /\ calls < MaxCalls
    /\ Len(o.ed.undoStack) + Len(o.ed.redoStack) <= MaxStack
    /\ calls' = calls + 1
    /\ heap' = o.ed.heap
    /\ idMap' = o.ed.idMap
    /\ undoStack' = o.ed.undoStack
    /\ redoStack' = o.ed.redoStack
    /\ isModified' = o.ed.isModified
    /\ last' = [op |-> op, kind |-> o.cmd.kind, out |-> o.out]
    /\ UNCHANGED <<root, lines, tcmd, content, logEnabled, seq>>
    /\ UNCHANGED <<timers, warnCh, mu, closedDelivered, event>>

InsertBefore == \E c \in InsertBeforeCommands : Step("InsertBefore", XmlEntryPoint(Ed, c))

AppendChild == \E c \in AppendChildCommands : Step("AppendChild", XmlEntryPoint(Ed, c))

EditId == \E c \in EditIdCommands : Step("EditId", XmlEntryPoint(Ed, c))

EditText == \E c \in EditTextCommands : Step("EditText", XmlEntryPoint(Ed, c))

Delete == \E c \in XmlDeleteCommands : Step("Delete", XmlEntryPoint(Ed, c))

Undo == Step("Undo", XmlEditorUndo(Ed))

Redo == Step("Redo", XmlEditorRedo(Ed))

Next ==
    \/ InsertBefore
    \/ AppendChild
    \/ EditId
    \/ EditText
    \/ Delete
    \/ Undo
    \/ Redo

Spec == Init /\ [][Next]_vars

\* The same editor, on documents built from every content.
SpecContents == InitContents /\ [][Next]_vars

(* ---------------------------- text buffer ------------------------------ *)

\* The line separator of strings.Split in InsertCommand.Execute.
NL == "\n"

\* strings.Split(s, "\n"): the pieces of s between the separators; a string
\* without separator (the empty string too) is its own single piece.
RECURSIVE Split(_)
Split(s) ==
    IF s = <<>> THEN << <<>> >>
    ELSE LET rest == Split(Tail(s))
         IN IF Head(s) = NL
            THEN << <<>> >> \o rest
            ELSE << <<Head(s)>> \o Head(rest) >> \o Tail(rest)

\* s[:i] and s[i:] of a string, i counted from 0.
Prefix(s, i) == SubSeq(s, 1, i)
Suffix(s, i) == SubSeq(s, i + 1, Len(s))

\* One record shape for AppendCommand, InsertCommand and DeleteCommand; a
\* field a command type does not have keeps its zero value.
NewTextCommand(kind) ==
    [kind |-> kind, line |-> 0, col |-> 0, length |-> 0, text |-> <<>>,
     prevLines |-> <<>>, prevLine |-> <<>>, splitLines |-> <<>>,
     executed |-> FALSE]

NewAppendCommand(text) == [NewTextCommand("Append") EXCEPT !.text = text]

NewInsertCommand(line, col, text) ==
    [NewTextCommand("Insert") EXCEPT !.line = line, !.col = col, !.text = text]

NewDeleteCommand(line, col, length) ==
    [NewTextCommand("Delete") EXCEPT !.line = line, !.col = col,
                                     !.length = length]

NewReplaceCommand(line, col, length, text) ==
    [kind |-> "Replace", line |-> line, col |-> col, length |-> length,
     text |-> text, deleteCmd |-> NewDeleteCommand(line, col, length),
     insertCmd |-> NewInsertCommand(line, col, text), executed |-> FALSE]

\* The TextEditor fields the commands work on.
TextEditor(l, mod) == [lines |-> l, isModified |-> mod]

Te == TextEditor(lines, isModified)

\* Result of Execute or Undo on the buffer: the editor fields, the command
\* afterwards and the branch taken: "ok", "refused" (validate said no),
\* "noop" (Undo of a command that is not executed) or "panic" (an index or
\* slice bound outside the buffer, which ends the program).
TextResult(l, mod, c, out) ==
    [lines |-> l, isModified |-> mod, c |-> c, out |-> out]

TextUnchanged(w, c, out) == TextResult(w.lines, w.isModified, c, out)

\* AppendCommand.Execute that saves the lines after it has appended.
AppendExecute_SavesAfter(w, c) ==
    TextResult(Append(w.lines, c.text), TRUE,
               [c EXCEPT !.prevLines = Append(w.lines, c.text),
                         !.executed = TRUE], "ok")

AppendExecute(w, c) ==
    TextResult(Append(w.lines, c.text), TRUE,
               [c EXCEPT !.prevLines = w.lines, !.executed = TRUE], "ok")

AppendUndo(w, c) ==
    IF ~c.executed THEN TextUnchanged(w, c, "noop")
    ELSE TextResult(c.prevLines, TRUE, c, "ok")

\* InsertCommand.validate that refuses the column just past the end of the
\* line.
InsertValidate_WithinLine(w, c) ==
    LET lineCount == Len(w.lines)
    IN IF lineCount = 0 THEN c.line = 1 /\ c.col = 1
       ELSE IF c.line < 1 \/ c.line > lineCount THEN FALSE
       ELSE c.col >= 1 /\ c.col <= Len(w.lines[c.line])

InsertValidate(w, c) ==
    LET lineCount == Len(w.lines)
    IN IF lineCount = 0 THEN c.line = 1 /\ c.col = 1
       ELSE IF c.line < 1 \/ c.line > lineCount THEN FALSE
       ELSE c.col >= 1 /\ c.col <= Len(w.lines[c.line]) + 1

\* InsertCommand.Execute whose last new line is the last fragment alone.
InsertExecute_DropsSuffix(w, c) ==
    IF ~InsertValidate(w, c) THEN TextUnchanged(w, c, "refused")
    ELSE LET lineIdx == c.line - 1
             colIdx == c.col - 1
         IN IF lineIdx >= Len(w.lines) THEN TextUnchanged(w, c, "panic")
            ELSE LET prevLine == w.lines[lineIdx + 1]
                     splitLines == Split(c.text)
                     n == Len(splitLines)
                     c1 == [c EXCEPT !.prevLine = prevLine,
                                     !.splitLines = splitLines,
                                     !.executed = TRUE]
                 IN IF n = 1
                    THEN TextResult(
                             [w.lines EXCEPT ![lineIdx + 1] =
                                  Prefix(prevLine, colIdx) \o c.text
                                      \o Suffix(prevLine, colIdx)],
                             TRUE, c1, "ok")
                    ELSE LET firstPart == Prefix(prevLine, colIdx) \o splitLines[1]
                             middleParts == SubSeq(splitLines, 2, n - 1)
                             lastPart == splitLines[n]
                         IN TextResult(
                                Prefix(w.lines, lineIdx) \o <<firstPart>>
                                    \o middleParts \o <<lastPart>>
                                    \o Suffix(w.lines, lineIdx + 1),
                                TRUE, c1, "ok")

InsertExecute(w, c) ==
    IF ~InsertValidate(w, c) THEN TextUnchanged(w, c, "refused")
    ELSE LET lineIdx == c.line - 1
             colIdx == c.col - 1
         IN IF lineIdx >= Len(w.lines) THEN TextUnchanged(w, c, "panic")
            ELSE LET prevLine == w.lines[lineIdx + 1]
                     splitLines == Split(c.text)
                     n == Len(splitLines)
                     c1 == [c EXCEPT !.prevLine = prevLine,
                                     !.splitLines = splitLines,
                                     !.executed = TRUE]
                 IN IF n = 1
                    THEN TextResult(
                             [w.lines EXCEPT ![lineIdx + 1] =
                                  Prefix(prevLine, colIdx) \o c.text
                                      \o Suffix(prevLine, colIdx)],
                             TRUE, c1, "ok")
                    ELSE LET firstPart == Prefix(prevLine, colIdx) \o splitLines[1]
                             middleParts == SubSeq(splitLines, 2, n - 1)
                             lastPart == splitLines[n] \o Suffix(prevLine, colIdx)
                         IN TextResult(
                                Prefix(w.lines, lineIdx) \o <<firstPart>>
                                    \o middleParts \o <<lastPart>>
                                    \o Suffix(w.lines, lineIdx + 1),
                                TRUE, c1, "ok")

InsertUndo(w, c) ==
    IF ~c.executed THEN TextUnchanged(w, c, "noop")
    ELSE LET lineIdx == c.line - 1
         IN IF Len(c.splitLines) = 1
            THEN IF lineIdx >= Len(w.lines) THEN TextUnchanged(w, c, "panic")
                 ELSE TextResult([w.lines EXCEPT ![lineIdx + 1] = c.prevLine],
                                 TRUE, c, "ok")
            ELSE LET removeCount == Len(c.splitLines) - 1
                 IN IF \/ Len(w.lines) - removeCount < 0
                       \/ lineIdx > Len(w.lines)
                       \/ lineIdx + 1 + removeCount > Len(w.lines)
                    THEN TextUnchanged(w, c, "panic")
                    ELSE TextResult(
                             Prefix(w.lines, lineIdx) \o <<c.prevLine>>
                                 \o Suffix(w.lines, lineIdx + 1 + removeCount),
                             TRUE, c, "ok")

\* DeleteCommand.validate without the test of the range's end.
DeleteValidate_NoEndCheck(w, c) ==
    LET lineCount == Len(w.lines)
    IN IF c.line < 1 \/ c.line > lineCount THEN FALSE
       ELSE LET lineLen == Len(w.lines[c.line])
                colIdx == c.col - 1
            IN IF colIdx < 0 \/ colIdx >= lineLen \/ c.length <= 0 THEN FALSE
               ELSE TRUE

DeleteValidate(w, c) ==
    LET lineCount == Len(w.lines)
    IN IF c.line < 1 \/ c.line > lineCount THEN FALSE
       ELSE LET lineLen == Len(w.lines[c.line])
                colIdx == c.col - 1
            IN IF colIdx < 0 \/ colIdx >= lineLen \/ c.length <= 0 THEN FALSE
               ELSE IF colIdx + c.length > lineLen THEN FALSE
               ELSE TRUE

DeleteExecute(w, c) ==
    IF ~DeleteValidate(w, c) THEN TextUnchanged(w, c, "refused")
    ELSE LET lineIdx == c.line - 1
             colIdx == c.col - 1
             prevLine == w.lines[lineIdx + 1]
         IN TextResult(
                [w.lines EXCEPT ![lineIdx + 1] =
                     Prefix(prevLine, colIdx) \o Suffix(prevLine, colIdx + c.length)],
                TRUE, [c EXCEPT !.prevLine = prevLine, !.executed = TRUE], "ok")

\* DeleteCommand.Undo that writes the saved line into the first line.
DeleteUndo_FirstLine(w, c) ==
    IF ~c.executed THEN TextUnchanged(w, c, "noop")
    ELSE IF c.line - 1 >= Len(w.lines) THEN TextUnchanged(w, c, "panic")
    ELSE TextResult([w.lines EXCEPT ![1] = c.prevLine], TRUE, c, "ok")

DeleteUndo(w, c) ==
    IF ~c.executed THEN TextUnchanged(w, c, "noop")
    ELSE IF c.line - 1 >= Len(w.lines) THEN TextUnchanged(w, c, "panic")
    ELSE TextResult([w.lines EXCEPT ![c.line] = c.prevLine], TRUE, c, "ok")

\* ReplaceCommand.Execute that goes on to the insert whatever the delete did.
ReplaceExecute_InsertsAnyway(w, c) ==
    LET d == DeleteExecute(w, c.deleteCmd)
        i == InsertExecute(TextEditor(d.lines, d.isModified), c.insertCmd)
    IN IF i.out = "panic"
       THEN TextResult(i.lines, i.isModified, [c EXCEPT !.deleteCmd = d.c],
                       "panic")
       ELSE TextResult(i.lines, i.isModified,
                       [c EXCEPT !.deleteCmd = d.c, !.insertCmd = i.c,
                                 !.executed = i.c.executed],
                       i.out)

ReplaceExecute(w, c) ==
    LET d == DeleteExecute(w, c.deleteCmd)
    IN IF ~d.c.executed
       THEN TextResult(d.lines, d.isModified, [c EXCEPT !.deleteCmd = d.c],
                       "refused")
       ELSE LET i == InsertExecute(TextEditor(d.lines, d.isModified), c.insertCmd)
            IN IF i.out = "panic"
               THEN TextResult(i.lines, i.isModified,
                               [c EXCEPT !.deleteCmd = d.c], "panic")
               ELSE TextResult(i.lines, i.isModified,
                               [c EXCEPT !.deleteCmd = d.c, !.insertCmd = i.c,
                                         !.executed = i.c.executed],
                               i.out)

\* ReplaceCommand.Undo that undoes the delete before the insert.
ReplaceUndo_DeleteFirst(w, c) ==
    IF ~c.executed THEN TextUnchanged(w, c, "noop")
    ELSE LET d == DeleteUndo(w, c.deleteCmd)
         IN IF d.out = "panic"
            THEN TextResult(d.lines, d.isModified, c, "panic")
            ELSE LET i == InsertUndo(TextEditor(d.lines, d.isModified),
                                     c.insertCmd)
                 IN IF i.out = "panic"
                    THEN TextResult(i.lines, i.isModified, c, "panic")
                    ELSE TextResult(i.lines, TRUE, c, "ok")

ReplaceUndo(w, c) ==
    IF ~c.executed THEN TextUnchanged(w, c, "noop")
    ELSE LET i == InsertUndo(w, c.insertCmd)
         IN IF i.out = "panic"
            THEN TextResult(i.lines, i.isModified, c, "panic")
            ELSE LET d == DeleteUndo(TextEditor(i.lines, i.isModified),
                                     c.deleteCmd)
                 IN IF d.out = "panic"
                    THEN TextResult(d.lines, d.isModified, c, "panic")
                    ELSE TextResult(d.lines, TRUE, c, "ok")

\* Command.Execute, Command.Undo and Command.IsExecuted of the text commands.
TextExecute(w, c) ==
    CASE c.kind = "Append" -> AppendExecute(w, c)
      [] c.kind = "Insert" -> InsertExecute(w, c)
      [] c.kind = "Delete" -> DeleteExecute(w, c)
      [] c.kind = "Replace" -> ReplaceExecute(w, c)

TextCommandUndo(w, c) ==
    CASE c.kind = "Append" -> AppendUndo(w, c)
      [] c.kind = "Insert" -> InsertUndo(w, c)
      [] c.kind = "Delete" -> DeleteUndo(w, c)
      [] c.kind = "Replace" -> ReplaceUndo(w, c)

TextIsExecuted(c) == c.executed

\* Lines a buffer starts with, and the buffers: zero to three lines.
LineSet == {<<>>, <<"a">>, <<"a", "b">>}

Buffers ==
    {<<>>} \cup {<<x>> : x \in LineSet}
        \cup {<<x, y>> : x \in LineSet, y \in LineSet}
        \cup {<<x, y, z>> : x \in LineSet, y \in LineSet, z \in LineSet}

\* Arguments the callers pass: texts with zero, one and several separators,
\* and positions inside, at the edge of and outside every buffer.
TextInputs ==
    {<<>>, <<"x">>, <<NL>>, <<"x", NL, "y">>, <<NL, NL>>,
     <<"x", NL, "y", NL, "z">>}
LineArgs == 0..4
ColArgs == 0..4
LengthArgs == 0..3

AppendCommands == {NewAppendCommand(text) : text \in TextInputs}

InsertCommands ==
    {NewInsertCommand(line, col, text) :
        line \in LineArgs, col \in ColArgs, text \in TextInputs}

DeleteCommands ==
    {NewDeleteCommand(line, col, length) :
        line \in LineArgs, col \in ColArgs, length \in LengthArgs}

ReplaceCommands ==
    UNION {{NewReplaceCommand(line, col, length, text) :
               line \in LineArgs, col \in ColArgs, length \in LengthArgs} :
           text \in TextInputs}

\* A text editor over one of the buffers; the XML editor stays as built.
InitText ==
    /\ NewXmlEditor(Content(<<>>, <<>>))
    /\ last = [op |-> "New", kind |-> "none", out |-> "ok"]
    /\ calls = 0
    /\ lines \in Buffers
    /\ tcmd = NoTextCommand
    /\ seq = NoSequence
    /\ NewStatistics

\* The step of the model that calls a method of a text command: the buffer
\* becomes the call's result, tcmd is the command object afterwards.  A
\* panic ends the run.
TextStep(op, r) ==
    /\ calls < MaxCalls
    /\ last.out # "panic"
    /\ calls' = calls + 1
    /\ lines' = r.lines
    /\ isModified' = r.isModified
    /\ tcmd' = r.c
    /\ last' = [op |-> op, kind |-> r.c.kind, out |-> r.out]
    /\ UNCHANGED <<heap, root, idMap, undoStack, redoStack, content, logEnabled, seq>>
    /\ UNCHANGED <<timers, warnCh, mu, closedDelivered, event>>

TextAppend ==
    /\ tcmd.kind = "none"
    /\ \E c \in AppendCommands : TextStep("TextExecute", AppendExecute(Te, c))

TextInsert ==
    /\ tcmd.kind = "none"
    /\ \E c \in InsertCommands : TextStep("TextExecute", InsertExecute(Te, c))

TextDelete ==
    /\ tcmd.kind = "none"
    /\ \E c \in DeleteCommands : TextStep("TextExecute", DeleteExecute(Te, c))

TextReplace ==
    /\ tcmd.kind = "none"
    /\ \E c \in ReplaceCommands : TextStep("TextExecute", ReplaceExecute(Te, c))

\* Undo of the command object, and Execute of it once more after an Undo.
TextUndo ==
    /\ tcmd.kind # "none"
    /\ TextStep("TextUndo", TextCommandUndo(Te, tcmd))

TextRedo ==
    /\ tcmd.kind # "none"
    /\ last.op = "TextUndo"
    /\ TextStep("TextRedo", TextExecute(Te, tcmd))

NextText ==
    \/ TextAppend
    \/ TextInsert
    \/ TextDelete
    \/ TextReplace
    \/ TextUndo
    \/ TextRedo

SpecText == InitText /\ [][NextText]_vars

(* ---------------------------- command sequences ------------------------ *)

\* Longest sequence of text commands that is executed, undone and executed
\* again.
MaxSeq == 2

\* The commands of the sequences: every kind, on the first two lines and
\* columns, with a text of one line and a text of two lines.
SeqCommands ==
    {c \in AppendCommands \cup InsertCommands \cup DeleteCommands
               \cup ReplaceCommands :
        /\ c.text \in {<<>>, <<"x">>, <<"x", NL, "y">>}
        /\ c.kind = "Append" \/ (c.line \in 1..2 /\ c.col \in 1..2)
        /\ c.kind \in {"Delete", "Replace"} => c.length = 1
        /\ c.kind # "Delete" => c.text # <<>>}

\* The run of a sequence: done holds the commands executed so far (the last
\* one at the end), undone the commands undone so far (the first of the
\* sequence in front), initial the buffer the sequence started on and first
\* the buffer after its first execution.
NewSequence(l) ==
    [phase |-> "execute", done |-> <<>>, undone |-> <<>>, initial |-> l,
     first |-> l]

InitSeq ==
    /\ NewXmlEditor(Content(<<>>, <<>>))
    /\ last = [op |-> "New", kind |-> "none", out |-> "ok"]
    /\ calls = 0
    /\ lines \in Buffers
    /\ tcmd = NoTextCommand
    /\ seq = NewSequence(lines)
    /\ NewStatistics

\* A call of Execute or Undo in a sequence.
SeqStep(op, r, s) ==
    /\ last.out # "panic"
    /\ lines' = r.lines
    /\ isModified' = r.isModified
    /\ last' = [op |-> op, kind |-> r.c.kind, out |-> r.out]
    /\ seq' = s
    /\ UNCHANGED <<heap, root, idMap, undoStack, redoStack, content, logEnabled,
                   calls, tcmd>>
    /\ UNCHANGED <<timers, warnCh, mu, closedDelivered, event>>

\* The next command of the sequence is executed; it counts when it executed
\* successfully.
SeqExecute ==
    /\ seq.phase = "execute"
    /\ Len(seq.done) < MaxSeq
    /\ \E c \in SeqCommands :
           LET r == TextExecute(Te, c)
           IN /\ r.out = "ok"
              /\ TextIsExecuted(r.c)
              /\ SeqStep("SeqExecute", r,
                         [seq EXCEPT !.done = Append(@, r.c), !.first = r.lines])

\* The commands are undone, the one executed last first.
SeqUndo ==
    /\ seq.phase \in {"execute", "undo"}
    /\ seq.done # <<>>
    /\ LET n == Len(seq.done)
           r == TextCommandUndo(Te, seq.done[n])
       IN SeqStep("SeqUndo", r,
                  [seq EXCEPT !.phase = "undo", !.done = SubSeq(@, 1, n - 1),
                              !.undone = <<r.c>> \o @])

\* When all are undone they are executed again, in their order.
SeqRedo ==
    /\ seq.phase \in {"undo", "redo"}
    /\ seq.done = <<>>
    /\ seq.undone # <<>>
    /\ LET r == TextExecute(Te, Head(seq.undone))
       IN SeqStep("SeqRedo", r,
                  [seq EXCEPT !.phase = "redo", !.undone = Tail(@)])

NextSeq ==
    \/ SeqExecute
    \/ SeqUndo
    \/ SeqRedo

SpecSeq == InitSeq /\ [][NextSeq]_vars

(* ---------------------------- statistics ------------------------------- *)

\* Largest absolute value of an accumulated TotalTime (in milliseconds).
MaxTotal == 2

\* Capacity of the warning channel.
WarnCap == 10

\* The tracked files and the timestamps (UnixMilli) events carry: in any
\* order, so an event may be older than the one before it.
Files == {"f1", "f2"}
Timestamps == 1..2

EventFileActivated == "file_activated"
EventFileSwitched == "file_switched"
EventFileClosed == "file_closed"
EventProgramExit == "program_exit"

WorkspaceEvent(FilePath, Type, Timestamp) ==
    [FilePath |-> FilePath, Type |-> Type, Timestamp |-> Timestamp]

Events ==
    {WorkspaceEvent(f, t, ts) :
        f \in Files,
        t \in {EventFileActivated, EventFileSwitched, EventFileClosed,
               EventProgramExit},
        ts \in Timestamps}

\* s.timers[filePath] = timer.
TimerPut(m, f, timer) ==
    [x \in (DOMAIN m) \cup {f} |-> IF x = f THEN timer ELSE m[x]]

\* The file_activated case of Update.
UpdateActivated(m, state) ==
    LET filePath == state.FilePath
    IN IF filePath \in DOMAIN m
       THEN LET timer == m[filePath]
            IN TimerPut(m, filePath,
                        FileTimer(state.Timestamp,
                                  IF timer.IsClosed THEN 0 ELSE timer.TotalTime,
                                  TRUE, FALSE))
       ELSE TimerPut(m, filePath, FileTimer(state.Timestamp, 0, TRUE, FALSE))

\* The file_switched and file_closed case of Update: the timers afterwards
\* and whether a warning is sent.
UpdateStopped(m, state) ==
    LET filePath == state.FilePath
    IN IF filePath \notin DOMAIN m \/ ~m[filePath].IsActive
       THEN [timers |-> m, warn |-> FALSE]
       ELSE LET timer == m[filePath]
                elapsed == state.Timestamp - timer.StartTime
            IN IF elapsed < 0 THEN [timers |-> m, warn |-> TRUE]
               ELSE [timers |->
                         TimerPut(m, filePath,
                                  FileTimer(timer.StartTime,
                                            timer.TotalTime + elapsed, FALSE,
                                            IF state.Type = EventFileClosed
                                            THEN TRUE ELSE timer.IsClosed)),
                     warn |-> FALSE]

\* The program_exit case of Update: every active timer is stopped.
UpdateExit(m, state) ==
    [path \in DOMAIN m |->
        IF m[path].IsActive
        THEN FileTimer(m[path].StartTime,
                       m[path].TotalTime + (state.Timestamp - m[path].StartTime),
                       FALSE, m[path].IsClosed)
        ELSE m[path]]

\* The timers stay within the range the model follows.
WithinTotal(m) ==
    \A f \in DOMAIN m : m[f].TotalTime \in (0 - MaxTotal)..MaxTotal

\* What the model remembers of a delivered event: its type and file, and
\* whether a file_closed had been delivered for the file, when it was
\* tracked, since its last activation.
Delivered(state) ==
    [Type |-> state.Type, FilePath |-> state.FilePath,
     closedBefore |-> state.FilePath \in closedDelivered]

StatsUnchanged ==
    UNCHANGED <<heap, root, idMap, undoStack, redoStack, isModified, last, calls,
                lines, tcmd, content, logEnabled, seq>>

\* Update for file_activated.
Activated ==
    /\ mu = "unlocked"
    /\ \E state \in Events :
           /\ state.Type = EventFileActivated
           /\ timers' = UpdateActivated(timers, state)
           /\ closedDelivered' = closedDelivered \ {state.FilePath}
           /\ event' = Delivered(state)
    /\ UNCHANGED <<warnCh, mu>>
    /\ StatsUnchanged

\* Update for file_switched and file_closed.  The warning is sent with the
\* mutex held: on a full channel the send waits, and Update with it.
Stopped ==
    /\ mu = "unlocked"
    /\ \E state \in Events :
           LET r == UpdateStopped(timers, state)
           IN /\ state.Type \in {EventFileSwitched, EventFileClosed}
              /\ WithinTotal(r.timers)
              /\ timers' = r.timers
              /\ warnCh' = IF r.warn /\ warnCh < WarnCap THEN warnCh + 1 ELSE warnCh
              /\ mu' = IF r.warn /\ warnCh = WarnCap THEN "locked" ELSE "unlocked"
              /\ closedDelivered' =
                     IF state.Type = EventFileClosed /\ state.FilePath \in DOMAIN timers
                     THEN closedDelivered \cup {state.FilePath}
                     ELSE closedDelivered
              /\ event' = Delivered(state)
    /\ StatsUnchanged

\* Update for program_exit.
Exit ==
    /\ mu = "unlocked"
    /\ \E state \in Events :
           /\ state.Type = EventProgramExit
           /\ WithinTotal(UpdateExit(timers, state))
           /\ timers' = UpdateExit(timers, state)
           /\ event' = Delivered(state)
    /\ UNCHANGED <<warnCh, mu, closedDelivered>>
    /\ StatsUnchanged

\* GetWarning takes a warning from the channel when there is one; an Update
\* that waits to send then sends, returns and releases the mutex.
GetWarning ==
    /\ warnCh > 0
    /\ IF mu = "locked"
       THEN mu' = "unlocked" /\ warnCh' = warnCh
       ELSE mu' = mu /\ warnCh' = warnCh - 1
    /\ event' = [Type |-> "GetWarning", FilePath |-> "", closedBefore |-> FALSE]
    /\ UNCHANGED <<timers, closedDelivered>>
    /\ StatsUnchanged

ResetTimer ==
    /\ mu = "unlocked"
    /\ \E filePath \in DOMAIN timers :
           /\ timers' = TimerPut(timers, filePath,
                                 FileTimer(ZeroTime, 0, FALSE, FALSE))
           /\ event' = [Type |-> "ResetTimer", FilePath |-> filePath,
                        closedBefore |-> filePath \in closedDelivered]
    /\ UNCHANGED <<warnCh, mu, closedDelivered>>
    /\ StatsUnchanged

InitStats ==
    /\ NewXmlEditor(Content(<<>>, <<>>))
    /\ last = [op |-> "New", kind |-> "none", out |-> "ok"]
    /\ calls = 0
    /\ lines = <<>>
    /\ tcmd = NoTextCommand
    /\ seq = NoSequence
    /\ NewStatistics

NextStats ==
    \/ Activated
    \/ Stopped
    \/ Exit
    \/ GetWarning
    \/ ResetTimer

SpecStats == InitStats /\ [][NextStats]_vars

(* ---------------------------- tree views ------------------------------- *)

\* The elements reachable from the root of an editor, in document order.
Reachable(ed) == Subtree(ed.heap, root)

ReachableSet(ed) == {Reachable(ed)[i] : i \in 1..Len(Reachable(ed))}

TypeOK ==
    /\ root \in 1..Len(heap)
    /\ calls \in 0..MaxCalls
    /\ \A k \in DOMAIN idMap : idMap[k] \in 1..Len(heap)
    /\ isModified \in BOOLEAN

\* The positions (in document order) at which element e is reachable.
Positions(ed, e) == {i \in 1..Len(Reachable(ed)) : Reachable(ed)[i] = e}

\* The tree and the index: what "the document" is for the structural claims.
SameDocument(ed1, ed2) == ed1.heap = ed2.heap /\ ed1.idMap = ed2.idMap

(* ---------------------------- properties ------------------------------- *)

\* C1: every XML entry point pushes its command on the undo stack if and
\* only if the command's Execute succeeded; a command whose validation fails
\* leaves the undo stack exactly as it was.
C1_PushedIffExecuted ==
    \A c \in Commands :
        LET o == ExecuteCommand(Ed, c)
        IN IF IsExecuted(o.cmd)
           THEN o.ed.undoStack = Append(undoStack, o.cmd)
           ELSE o.ed.undoStack = undoStack

\* C2: a failed XML command leaves the redo stack unchanged, so that a redo
\* after it still finds the undone command.
C2_FailedKeepsRedo ==
    \A c \in Commands :
        LET o == ExecuteCommand(Ed, c)
        IN ~IsExecuted(o.cmd) => o.ed.redoStack = redoStack

\* C3: no two elements reachable from the root carry the same non-empty
\* identifier, in every state reachable from an empty or a parsed document.
C3_UniqueIdentifiers ==
    \A i, j \in 1..Len(Reachable(Ed)) :
        (i # j /\ heap[Reachable(Ed)[i]].id = heap[Reachable(Ed)[j]].id)
            => heap[Reachable(Ed)[i]].id = EmptyStr

\* C4: every key of the identifier index maps to an element that is
\* reachable from the root at exactly one position and whose id is the key.
C4_IndexSound ==
    \A k \in DOMAIN idMap :
        /\ Cardinality(Positions(Ed, idMap[k])) = 1
        /\ heap[idMap[k]].id = k

\* C5: every reachable element's attribute entry for key "id" equals its
\* canonical identifier field (an element without identifier has no entry).
C5_IdMirrored ==
    \A e \in ReachableSet(Ed) :
        IF "id" \in DOMAIN heap[e].attrs
        THEN heap[e].attrs["id"] = heap[e].id
        ELSE heap[e].id = EmptyStr

C7_EditTextUndoRestores ==
    \A c \in EditTextCommands :
        LET o == ExecuteCommand(Ed, c)
            u == XmlEditorUndo(o.ed)
        IN IsExecuted(o.cmd) =>
               u.ed.heap[idMap[c.elementId]].text = heap[idMap[c.elementId]].text

\* C8: a successful EditId(oldId, newId) re-keys the index from oldId to
\* newId for the same element, changes no other entry and no tree position;
\* a following Undo gives back the index of before.
C8_EditIdRekeys ==
    \A c \in EditIdCommands :
        LET o == ExecuteCommand(Ed, c)
            u == XmlEditorUndo(o.ed)
        IN IsExecuted(o.cmd) =>
               /\ c.oldId \notin DOMAIN o.ed.idMap
               /\ o.ed.idMap = MapPut(MapDelete(idMap, c.oldId), c.newId, idMap[c.oldId])
               /\ \A e \in 1..Len(heap) :
                      /\ o.ed.heap[e].children = heap[e].children
                      /\ o.ed.heap[e].parent = heap[e].parent
               /\ u.ed.idMap = idMap

\* C9: InsertBefore with a fresh newId and the root's identifier as targetId
\* fails with IllegalRootOperation and leaves tree and index unchanged.
C9_InsertBeforeRootRefused ==
    \A c \in InsertBeforeCommands :
        LET o == ExecuteCommand(Ed, c)
        IN (c.targetId = heap[root].id /\ c.newId \notin DOMAIN idMap) =>
               /\ o.out = "IllegalRootOperation"
               /\ SameDocument(o.ed, Ed)

\* C10: the root is the element it was at creation, keeps its initial
\* identifier, is nobody's child, and no successful InsertBefore places its
\* new element before it.
C10_RootProtected ==
    /\ root = 1
    /\ heap[root].id = RootStr
    /\ heap[root].parent = 0
    /\ \A e \in 1..Len(heap) : \A i \in 1..Len(heap[e].children) :
           heap[e].children[i] # root
    /\ \A c \in InsertBeforeCommands :
           LET o == ExecuteCommand(Ed, c)
               n == o.cmd.insertedElem
               kids == o.ed.heap[o.ed.heap[n].parent].children
           IN IsExecuted(o.cmd) =>
                  /\ o.ed.heap[n].parent # 0
                  /\ kids[IndexOfElem(kids, n) + 2] # root

\* The editor has refused to rename the root, which is in the index.
C10_Witness ==
    /\ last.op = "EditId" /\ last.out = "IllegalRootOperation"
    /\ heap[root].id \in DOMAIN idMap
    /\ idMap[heap[root].id] = root

\* C11: when Execute of a structural command fails its validation (a new
\* command, or the command a Redo executes again), the tree and the index
\* are exactly what they were and IsExecuted() of the command is false.
C11_FailureLeavesDocument ==
    /\ \A c \in Commands :
           LET r == Execute(Ed, c)
           IN r.out # "ok" =>
                  /\ r.heap = heap
                  /\ r.idMap = idMap
                  /\ ~IsExecuted(r.c)
    /\ Len(redoStack) > 0 =>
           LET r == Execute(Ed, redoStack[Len(redoStack)])
           IN r.out # "ok" =>
                  /\ r.heap = heap
                  /\ r.idMap = idMap
                  /\ ~IsExecuted(r.c)

\* C12: every XML mutation entry point gives its caller a result that tells
\* a failed validation from a success: the returned error is nil exactly
\* when the command executed.
C12_FailureReported ==
    \A c \in Commands :
        LET o == XmlEntryPoint(Ed, c)
        IN (o.err = "nil") <=> IsExecuted(o.cmd)

\* C13: a successful InsertBefore creates exactly one element, with the given
\* tag, id and text, immediately before the target in the child list of the
\* target's parent, keeps the other children in their order, and adds exactly
\* the key newId to the index.
C13_InsertBeforePlaces ==
    \A c \in InsertBeforeCommands :
        LET o == ExecuteCommand(Ed, c)
            n == o.cmd.insertedElem
            target == idMap[c.targetId]
            parent == heap[target].parent
            kids == heap[parent].children
        IN IsExecuted(o.cmd) =>
               /\ n = Len(heap) + 1
               /\ Len(o.ed.heap) = Len(heap) + 1
               /\ o.ed.heap[n].tag = c.tag
               /\ o.ed.heap[n].id = c.newId
               /\ o.ed.heap[n].text = c.text
               /\ o.ed.heap[n].parent = parent
               /\ IndexOfElem(kids, target) # -1
               /\ o.ed.heap[parent].children =
                      InsertAt(kids, IndexOfElem(kids, target), n)
               /\ \A e \in 1..Len(heap) : e # parent => o.ed.heap[e] = heap[e]
               /\ c.newId \notin DOMAIN idMap
               /\ o.ed.idMap = MapPut(idMap, c.newId, n)

\* C14: AppendChild with the root's identifier as parentId and an identifier
\* nobody uses succeeds: the root gains a new last child with the given tag,
\* id and text, its earlier children are unchanged, and the index contains
\* newId.
C14_AppendChildUnderRoot ==
    \A c \in AppendChildCommands :
        LET o == ExecuteCommand(Ed, c)
            n == o.cmd.insertedElem
        IN (/\ c.parentId = heap[root].id
            /\ c.newId \notin DOMAIN idMap
            /\ \A e \in ReachableSet(Ed) : heap[e].id # c.newId) =>
               /\ IsExecuted(o.cmd)
               /\ n = Len(heap) + 1
               /\ o.ed.heap[root].children = Append(heap[root].children, n)
               /\ o.ed.heap[n].tag = c.tag
               /\ o.ed.heap[n].id = c.newId
               /\ o.ed.heap[n].text = c.text
               /\ c.newId \in DOMAIN o.ed.idMap
               /\ o.ed.idMap[c.newId] = n

\* C15: a successful InsertBefore or AppendChild followed by Undo removes
\* exactly the inserted element from its parent's child list and exactly its
\* id from the index: every element is as before the Execute and so is the
\* index.
C15_InsertUndoRestores ==
    \A c \in InsertBeforeCommands \cup AppendChildCommands :
        LET o == ExecuteCommand(Ed, c)
            u == XmlEditorUndo(o.ed)
        IN IsExecuted(o.cmd) =>
               /\ \A e \in 1..Len(heap) : u.ed.heap[e] = heap[e]
               /\ u.ed.idMap = idMap

\* What a command was built from: its kind and constructor arguments, which
\* Execute and Undo never change.
Request(c) ==
    [kind |-> c.kind, tag |-> c.tag, newId |-> c.newId, targetId |-> c.targetId,
     parentId |-> c.parentId, oldId |-> c.oldId, elementId |-> c.elementId,
     text |-> c.text]

\* C18: undo() on an empty undo stack and redo() on an empty redo stack leave
\* tree, index and both stacks unchanged; otherwise undo() moves exactly the
\* top command of the undo stack onto the redo stack and redo() moves exactly
\* the top command of the redo stack back.  (Both functions have the single
\* return value nil.)
C18_UndoRedoMoveTop ==
    LET u == XmlEditorUndo(Ed)
        r == XmlEditorRedo(Ed)
        nu == Len(undoStack)
        nr == Len(redoStack)
    IN /\ nu = 0 => u.ed = Ed /\ u.out = "empty"
       /\ nr = 0 => r.ed = Ed /\ r.out = "empty"
       /\ nu > 0 =>
              /\ u.ed.undoStack = SubSeq(undoStack, 1, nu - 1)
              /\ Len(u.ed.redoStack) = nr + 1
              /\ SubSeq(u.ed.redoStack, 1, nr) = redoStack
              /\ Request(u.ed.redoStack[nr + 1]) = Request(undoStack[nu])
       /\ nr > 0 =>
              /\ r.ed.redoStack = SubSeq(redoStack, 1, nr - 1)
              /\ Len(r.ed.undoStack) = nu + 1
              /\ SubSeq(r.ed.undoStack, 1, nu) = undoStack
              /\ Request(r.ed.undoStack[nu + 1]) = Request(redoStack[nr])

\* A command has gone from the undo stack to the redo stack and back.
C18_Witness ==
    /\ last.op = "Redo" /\ last.out = "ok"
    /\ Len(undoStack) = 1
    /\ IsExecuted(undoStack[1])
    /\ redoStack = <<>>

\* C19: after any successfully executed new command the redo stack is empty,
\* so a redo() directly after it changes nothing.
C19_LinearHistory ==
    /\ \A c \in Commands :
           LET o == XmlEntryPoint(Ed, c)
               r == XmlEditorRedo(o.ed)
           IN IsExecuted(o.cmd) =>
                  /\ o.ed.redoStack = <<>>
                  /\ r.ed = o.ed
    /\ (/\ last.op \in {"InsertBefore", "AppendChild", "EditId", "EditText", "Delete"}
        /\ last.out = "ok") => redoStack = <<>>

\* A new command has succeeded after an insertion was undone: the element
\* the undone command had created is allocated and no longer in the tree.
C19_Witness ==
    /\ last.op = "AppendChild" /\ last.out = "ok"
    /\ redoStack = <<>>
    /\ Len(undoStack) = 1
    /\ undoStack[1].insertedElem = Len(heap)
    /\ \E e \in 1..Len(heap) :
           /\ e \notin ReachableSet(Ed)
           /\ heap[e].parent = root

\* C16: every command's Undo reverses exactly once: a second Undo directly
\* after a first one changes nothing in the document, and Undo of a command
\* that never executed changes nothing.
C16_UndoReversesOnce ==
    /\ (last.op = "TextUndo" /\ last.out # "panic") =>
           LET u == TextCommandUndo(Te, tcmd)
           IN u.out # "panic" /\ u.lines = lines
    /\ (tcmd.kind # "none" /\ ~TextIsExecuted(tcmd)) =>
           TextCommandUndo(Te, tcmd).lines = lines
    /\ tcmd.kind = "none" =>
           \A c \in AppendCommands \cup InsertCommands \cup DeleteCommands
                        \cup ReplaceCommands :
               TextCommandUndo(Te, c).lines = lines

\* C17: IsExecuted() of a command is false before Execute, true after a
\* successful Execute and false again after Undo.
C17_IsExecutedTracks ==
    /\ tcmd.kind = "none" =>
           \A c \in AppendCommands \cup InsertCommands \cup DeleteCommands
                        \cup ReplaceCommands : ~TextIsExecuted(c)
    /\ (last.op \in {"TextExecute", "TextRedo"} /\ last.out = "ok") =>
           TextIsExecuted(tcmd)
    /\ last.op = "TextUndo" => ~TextIsExecuted(tcmd)

\* C20: for every buffer and every (line, col, text) that passes Insert's
\* validation, Insert followed by Undo gives back exactly the lines before
\* the Insert, for a text with zero, one or several line separators.
C20_InsertUndoRoundTrip ==
    tcmd.kind = "none" =>
        \A c \in InsertCommands :
            InsertValidate(Te, c) =>
                LET e == InsertExecute(Te, c)
                    u == InsertUndo(TextEditor(e.lines, e.isModified), e.c)
                IN /\ e.out = "ok"
                   /\ u.out = "ok"
                   /\ u.lines = lines

\* C21: Insert accepts exactly 1 <= line <= lineCount with
\* 1 <= col <= len(targetLine)+1 on a buffer with lines, and exactly line 1,
\* col 1 on a buffer without lines; an accepted Insert runs to completion
\* without fault and is executed, a rejected one leaves the buffer unchanged
\* and is not executed.
C21_InsertValidation ==
    tcmd.kind = "none" =>
        \A c \in InsertCommands :
            LET accepted ==
                    IF Len(lines) = 0 THEN c.line = 1 /\ c.col = 1
                    ELSE /\ c.line \in 1..Len(lines)
                         /\ c.col \in 1..(Len(lines[c.line]) + 1)
                e == InsertExecute(Te, c)
            IN /\ accepted => e.out = "ok" /\ TextIsExecuted(e.c)
               /\ ~accepted =>
                      /\ e.out = "refused"
                      /\ e.lines = lines
                      /\ ~TextIsExecuted(e.c)

\* C22: a valid Insert(line, col, text) whose text splits on the separator
\* into f0..fk, k >= 1, replaces the target line by prefix+f0, f1..f(k-1),
\* fk+suffix; the line count grows by k and the other lines keep content and
\* order.  With k = 0 the target line becomes prefix+text+suffix and the
\* line count is unchanged.
C22_InsertLayout ==
    tcmd.kind = "none" =>
        \A c \in InsertCommands :
            LET e == InsertExecute(Te, c)
                f == Split(c.text)
                k == Len(f) - 1
                target == lines[c.line]
                prefix == SubSeq(target, 1, c.col - 1)
                suffix == SubSeq(target, c.col, Len(target))
                new == e.lines
            IN e.out = "ok" =>
                   /\ Len(new) = Len(lines) + k
                   /\ \A j \in 1..(c.line - 1) : new[j] = lines[j]
                   /\ \A j \in (c.line + 1)..Len(lines) : new[j + k] = lines[j]
                   /\ k = 0 => new[c.line] = prefix \o c.text \o suffix
                   /\ k >= 1 =>
                          /\ new[c.line] = prefix \o f[1]
                          /\ \A j \in 1..(k - 1) : new[c.line + j] = f[j + 1]
                          /\ new[c.line + k] = f[k + 1] \o suffix

\* A text with two separators has been inserted inside a line that has
\* lines before and after it.
C22_Witness ==
    /\ last.op = "TextExecute" /\ last.kind = "Insert" /\ last.out = "ok"
    /\ Len(tcmd.splitLines) = 3
    /\ tcmd.line = 2 /\ tcmd.col = 2
    /\ Len(tcmd.prevLine) = 2
    /\ Len(lines) = 5

\* C23: text Delete(line, col, length) succeeds exactly when
\* 1 <= line <= lineCount, 0 <= col-1 < len(targetLine), length > 0 and
\* col-1+length <= len(targetLine); on success the target line loses exactly
\* the addressed characters and nothing else changes; on failure the buffer
\* is unchanged and the command is not executed.
C23_DeleteValidation ==
    tcmd.kind = "none" =>
        \A c \in DeleteCommands :
            LET valid ==
                    /\ c.line \in 1..Len(lines)
                    /\ 0 <= c.col - 1
                    /\ c.col - 1 < Len(lines[c.line])
                    /\ c.length > 0
                    /\ c.col - 1 + c.length <= Len(lines[c.line])
                e == DeleteExecute(Te, c)
                target == lines[c.line]
            IN /\ valid <=> TextIsExecuted(e.c)
               /\ valid =>
                      /\ e.out = "ok"
                      /\ Len(e.lines) = Len(lines)
                      /\ \A j \in 1..Len(lines) : j # c.line => e.lines[j] = lines[j]
                      /\ e.lines[c.line] =
                             SubSeq(target, 1, c.col - 1)
                                 \o SubSeq(target, c.col + c.length, Len(target))
               /\ ~valid => e.lines = lines /\ e.out = "refused"

\* The middle of three lines has lost its second character.
C23_Witness ==
    /\ last.op = "TextExecute" /\ last.kind = "Delete" /\ last.out = "ok"
    /\ tcmd.line = 2 /\ tcmd.col = 2 /\ tcmd.length = 1
    /\ Len(lines) = 3
    /\ tcmd.prevLine = <<"a", "b">>
    /\ lines[2] = <<"a">>

\* C24: for every buffer and every valid (line, col, length), text Delete
\* followed by Undo gives back the exact content of the target line and
\* leaves all other lines unchanged.
C24_DeleteUndoRoundTrip ==
    /\ tcmd.kind = "none" =>
           \A c \in DeleteCommands :
               LET e == DeleteExecute(Te, c)
                   u == DeleteUndo(TextEditor(e.lines, e.isModified), e.c)
               IN DeleteValidate(Te, c) => u.out = "ok" /\ u.lines = lines
    /\ (last.op = "TextUndo" /\ last.kind = "Delete" /\ last.out = "ok") =>
           lines[tcmd.line] = tcmd.prevLine

\* A Delete inside the last of three lines has been undone.
C24_Witness ==
    /\ last.op = "TextUndo" /\ last.kind = "Delete" /\ last.out = "ok"
    /\ tcmd.line = 3 /\ tcmd.col = 1 /\ tcmd.length = 2
    /\ lines[3] = <<"a", "b">>

\* C25: for every Replace(line, col, length, text) that reports executed,
\* texts with line separators included, Replace followed by Undo gives back
\* the buffer exactly: the line count and every line.
C25_ReplaceUndoRoundTrip ==
    tcmd.kind = "none" =>
        \A c \in ReplaceCommands :
            LET e == ReplaceExecute(Te, c)
                u == ReplaceUndo(TextEditor(e.lines, e.isModified), e.c)
            IN TextIsExecuted(e.c) => u.out = "ok" /\ u.lines = lines

\* A Replace of two characters by a text with two separators has been
\* executed and undone on the middle line of three.
C25_Witness ==
    /\ last.op = "TextUndo" /\ last.kind = "Replace" /\ last.out = "ok"
    /\ tcmd.line = 2 /\ tcmd.length = 2
    /\ Len(tcmd.insertCmd.splitLines) = 3
    /\ Len(lines) = 3
    /\ lines[2] = <<"a", "b">>

\* C26: when the delete sub-step of Replace fails its validation, the insert
\* sub-step is not attempted, the buffer is unchanged and IsExecuted() of
\* the Replace is false; for a new Replace and for one executed again after
\* Undo.
C26_ReplaceAborts ==
    /\ tcmd.kind = "none" =>
           \A c \in ReplaceCommands :
               LET e == ReplaceExecute(Te, c)
               IN ~DeleteValidate(Te, c.deleteCmd) =>
                      /\ e.lines = lines
                      /\ ~TextIsExecuted(e.c)
                      /\ e.c.insertCmd = c.insertCmd
    /\ (tcmd.kind = "Replace" /\ last.op = "TextUndo" /\ last.out # "panic") =>
           LET e == ReplaceExecute(Te, tcmd)
           IN ~DeleteValidate(Te, tcmd.deleteCmd) =>
                  /\ e.lines = lines
                  /\ ~TextIsExecuted(e.c)
                  /\ e.c.insertCmd = tcmd.insertCmd

\* A Replace whose range runs past the end of its line has been refused,
\* at a position where its insert alone would have been accepted.
C26_Witness ==
    /\ last.op = "TextExecute" /\ last.kind = "Replace" /\ last.out = "refused"
    /\ tcmd.line = 1 /\ tcmd.col = 1 /\ tcmd.length = 3
    /\ Len(lines) = 2
    /\ lines[1] = <<"a", "b">>
    /\ tcmd.text = <<"x", NL, "y">>
    /\ ~TextIsExecuted(tcmd)
    /\ ~TextIsExecuted(tcmd.insertCmd)

\* C27: Append(text) always succeeds: the line count grows by one, the new
\* last line is text and the earlier lines are unchanged; an Undo after it
\* gives back the exact prior line sequence.
C27_AppendAndUndo ==
    /\ last.out # "panic" =>
           \A c \in AppendCommands :
               LET e == AppendExecute(Te, c)
                   u == AppendUndo(TextEditor(e.lines, e.isModified), e.c)
               IN /\ e.out = "ok" /\ TextIsExecuted(e.c)
                  /\ Len(e.lines) = Len(lines) + 1
                  /\ e.lines[Len(e.lines)] = c.text
                  /\ SubSeq(e.lines, 1, Len(lines)) = lines
                  /\ u.out = "ok" /\ u.lines = lines
    /\ (last.op = "TextUndo" /\ last.kind = "Append") => lines = tcmd.prevLines

\* An Append of a text with separators to a buffer of three lines has been
\* undone.
C27_Witness ==
    /\ last.op = "TextUndo" /\ last.kind = "Append" /\ last.out = "ok"
    /\ tcmd.text = <<"x", NL, "y">>
    /\ Len(lines) = 3

\* C29: round trip: parsing the output of ToXML gives a tree equal to the
\* tree of the editor in tag, identifier, attributes, text and child order
\* at every element.
C29_RoundTrip ==
    LET p == parseXMLContent(ToXML(Ed))
    IN /\ p.root # 0
       /\ TreeValue(p.heap, p.root) = TreeValue(heap, root)


\* C28: a document built from content whose first line is the log marker has
\* its logging flag set, its tree is the parse of the content without the
\* marker line, and the output of GetContent begins with the marker line.
C28_LogMarkerKept ==
    (content.head # <<>> /\ content.head[1] = LogMarker) =>
        /\ IsLogEnabled
        /\ last.op = "New" =>
               heap = IF content.xml = <<>> THEN EmptyDocHeap
                      ELSE parseXMLContent(content.xml).heap
        /\ GetContent(Ed).head # <<>>
        /\ GetContent(Ed).head[1] = LogMarker


\* C30: after a successful Delete(id) no key of the index leads to the
\* deleted element or to an element below it, at any depth: the identifiers
\* of the whole deleted subtree are gone from the index.
C30_DeleteClearsIndex ==
    \A c \in XmlDeleteCommands :
        LET o == XmlEntryPoint(Ed, c)
            gone == Subtree(heap, o.cmd.deletedElem)
        IN IsExecuted(o.cmd) =>
               \A i \in 1..Len(gone) :
                   heap[gone[i]].id # EmptyStr =>
                       ~ /\ heap[gone[i]].id \in DOMAIN o.ed.idMap
                         /\ o.ed.idMap[heap[gone[i]].id] = gone[i]


\* C31: index completeness: every element reachable from the root that has
\* a non-empty identifier, the root included, is a key of the identifier
\* index and the index maps that key to the element.
C31_IndexComplete ==
    \A e \in ReachableSet(Ed) :
        heap[e].id # EmptyStr =>
            /\ heap[e].id \in DOMAIN idMap
            /\ idMap[heap[e].id] = e


\* C32: Replace is atomic.  After ReplaceCommand.Execute either both
\* sub-steps were applied (the range of the target line is replaced by the
\* text, split at its newlines) and IsExecuted() is true, or the buffer is
\* unchanged and IsExecuted() is false; the delete sub-step is never applied
\* with the insert sub-step refused.  For a new Replace and for one executed
\* again after Undo.
C32_ReplaceAtomic ==
    /\ tcmd.kind = "none" =>
           \A c \in ReplaceCommands :
               LET e == ReplaceExecute(Te, c)
               IN /\ e.out # "panic"
                  /\ ~(TextIsExecuted(e.c.deleteCmd) /\ ~TextIsExecuted(e.c.insertCmd))
                  /\ IF TextIsExecuted(e.c)
                     THEN LET ln == lines[c.line]
                              new == Prefix(ln, c.col - 1) \o c.text
                                         \o Suffix(ln, c.col - 1 + c.length)
                          IN e.lines = SubSeq(lines, 1, c.line - 1) \o Split(new)
                                           \o SubSeq(lines, c.line + 1, Len(lines))
                     ELSE e.lines = lines
    /\ (tcmd.kind = "Replace" /\ last.op = "TextUndo" /\ last.out # "panic") =>
           LET e == ReplaceExecute(Te, tcmd)
           IN /\ e.out # "panic"
              /\ IF TextIsExecuted(e.c)
                 THEN LET ln == lines[tcmd.line]
                          new == Prefix(ln, tcmd.col - 1) \o tcmd.text
                                     \o Suffix(ln, tcmd.col - 1 + tcmd.length)
                      IN e.lines = SubSeq(lines, 1, tcmd.line - 1) \o Split(new)
                                       \o SubSeq(lines, tcmd.line + 1, Len(lines))
                 ELSE e.lines = lines

\* A Replace with a text of two lines has been applied in the middle of a
\* line: both sub-steps acted.
C32_Witness ==
    /\ last.op = "TextExecute" /\ last.kind = "Replace" /\ last.out = "ok"
    /\ TextIsExecuted(tcmd)
    /\ TextIsExecuted(tcmd.deleteCmd) /\ TextIsExecuted(tcmd.insertCmd)
    /\ tcmd.line = 1 /\ tcmd.col = 2 /\ tcmd.length = 1
    /\ tcmd.text = <<"x", NL, "y">>
    /\ Len(lines) >= 2
    /\ lines[1] = <<"a", "x">> /\ lines[2] = <<"y">>


\* C33: a sequence of successfully executed text commands, undone in strict
\* reverse order, gives back the buffer it started on; executed again in
\* their order after that, the commands give the buffer of the first
\* execution.  No call of the sequence faults.
C33_SequenceRoundTrip ==
    /\ seq.phase # "none" => last.out # "panic"
    /\ (seq.phase = "undo" /\ seq.done = <<>>) => lines = seq.initial
    /\ (seq.phase = "redo" /\ seq.undone = <<>>) => lines = seq.first

\* Two commands of different kinds, one of them with a text of two lines,
\* have been executed, undone and executed again.
C33_Witness ==
    /\ seq.phase = "redo" /\ seq.undone = <<>>
    /\ last.op = "SeqRedo" /\ last.kind = "Delete"
    /\ seq.initial = << <<"a", "b">> >>
    /\ lines = << <<"x">>, <<"y", "b">> >>


\* C34: with a successfully executed command on top of the undo stack,
\* undo() followed directly by redo() gives back the document of before the
\* undo: the same tree in shape, tags, identifiers, text and child order,
\* and an index with the same keys.
C34_UndoRedoRestores ==
    (undoStack # <<>> /\ IsExecuted(undoStack[Len(undoStack)])) =>
        LET u == XmlEditorUndo(Ed)
            r == XmlEditorRedo(u.ed)
        IN /\ TreeValue(r.ed.heap, root) = TreeValue(heap, root)
           /\ DOMAIN r.ed.idMap = DOMAIN idMap


\* C35: an entry point whose command fails its validation leaves the
\* modified flag of the document at the value it had: the flag becomes true
\* only when a mutation is applied.
C35_ModifiedOnlyOnMutation ==
    \A c \in Commands :
        LET o == XmlEntryPoint(Ed, c)
        IN ~IsExecuted(o.cmd) => o.ed.isModified = isModified


\* C36: when a file_closed event has been delivered for a tracked file, the
\* next file_activated event for that file resets its TotalTime to zero,
\* whether or not the file was active when it was closed.
C36_ReactivationResets ==
    (event.Type = EventFileActivated /\ event.closedBefore) =>
        timers[event.FilePath].TotalTime = 0

\* C37: Update always returns and releases its lock: no sequence of events
\* leaves an Update waiting with the mutex held.
C37_UpdateReturns == mu = "unlocked"

\* C38: the TotalTime of a file is never negative, and from one call to the
\* next it does not decrease unless it is reset to zero.
C38_TotalTimeMonotone ==
    [][\A f \in DOMAIN timers :
           /\ timers'[f].TotalTime >= 0
           /\ timers'[f].TotalTime >= timers[f].TotalTime \/ timers'[f].TotalTime = 0]_vars

====
